---- MODULE Spec2Model ----
(***************************************************************************)
(* Model of radialgl.cpp: a FreeMind document is parsed into a tree, laid  *)
(* out radially once (leaf counts, angular sectors, radii/positions), and  *)
(* then rendered by GLUT callbacks that only change view state.            *)
(*                                                                         *)
(* C++ `float` is IEEE-754 binary32.  A float is represented here by its   *)
(* bit pattern taken as a sign-magnitude integer: |v| is the 31-bit        *)
(* pattern of |x| and the sign of v is the sign of x (so +0 and -0, which  *)
(* compare equal in C++, are both 0).  On finite floats the order of the   *)
(* integers is the order of the floats, and the difference of two          *)
(* integers of the same sign is their distance in units in the last place. *)
(* Every arithmetic operator below rounds to nearest, ties to even, one    *)
(* operation at a time (FLT_EVAL_METHOD 0, no fused multiply-add).         *)
(***************************************************************************)
EXTENDS Integers, Sequences, FiniteSets, TLC

\* ---------------------------- binary32 arithmetic ----------------------------
\* Each step of an operation is an operator of its own that takes the
\* values of the step before as parameters.

F32_INF == 2139095040

F32Abs(v) == IF v < 0 THEN -v ELSE v

F32Sgn(v) == IF v < 0 THEN -1 ELSE 1

RECURSIVE BitLenLow(_)
BitLenLow(m) == IF m = 0 THEN 0 ELSE 1 + BitLenLow(m \div 2)

\* number of significant bits of m, 0 <= m < 2^31
BitLen(m) ==
    IF m < 8388608 THEN BitLenLow(m)
    ELSE IF m < 134217728
      THEN (IF m < 33554432 THEN (IF m < 16777216 THEN 24 ELSE 25)
                            ELSE (IF m < 67108864 THEN 26 ELSE 27))
      ELSE (IF m < 536870912 THEN (IF m < 268435456 THEN 28 ELSE 29)
                             ELSE (IF m < 1073741824 THEN 30 ELSE 31))

\* <<m, e>> with |x| = m * 2^e, as stored (a subnormal keeps e = -149)
F32Decode(a) ==
    IF a < 8388608 THEN <<a, -149>>
    ELSE <<(a % 8388608) + 8388608, (a \div 8388608) - 150>>

F32Normalise(m, k) == <<m * 2^(24 - k), -149 - (24 - k)>>

\* the same with m normalised into [2^23, 2^24), for a # 0
F32DecodeNorm(a) ==
    IF a < 8388608 THEN F32Normalise(a, BitLen(a)) ELSE F32Decode(a)

\* bit pattern of q * 2^e, q < 2^24 (or 2^24 after a carry), e >= -149
F32Pack(q, e) ==
    IF e + 149 >= 254 THEN F32_INF ELSE (e + 149) * 8388608 + q

\* q or q + 1: round to nearest, ties to even, on the remainder r of a
\* division by 2 * half (sticky: something nonzero lies below r)
F32RoundUp(q, r, half, e, sticky) ==
    F32Pack(IF r > half \/ (r = half /\ (sticky \/ q % 2 = 1)) THEN q + 1 ELSE q, e)

\* drop the last sh bits of M
F32RoundShift(M, e, sticky, sh) ==
    IF sh <= 0 THEN F32Pack(M * 2^(-sh), e + sh)
    ELSE IF sh >= 31 THEN 0
    ELSE F32RoundUp(M \div 2^sh, M % 2^sh, 2^(sh - 1), e + sh, sticky)

\* keep 24 bits of the k of M, fewer where the result is subnormal
F32RoundBits(M, e, sticky, k) ==
    F32RoundShift(M, e, sticky, IF e + k - 24 < -149 THEN -149 - e ELSE k - 24)

\* M * 2^e (plus a nonzero amount below M's last bit when sticky) rounded
\* to nearest, ties to even
F32Round(M, e, sticky) ==
    IF M = 0 THEN 0 ELSE F32RoundBits(M, e, sticky, BitLen(M))

\* A and B are the significands with three more bits, aligned
F32AddSum(A, B, e, s, same) ==
    s * F32Round(IF same THEN A + B ELSE A - B, e, FALSE)

\* Bs is the smaller significand shifted right; the bits lost are kept
\* as its last bit
F32AddSticky(A, Bs, lost, e, s, same) ==
    F32AddSum(A, IF lost /\ Bs % 2 = 0 THEN Bs + 1 ELSE Bs, e, s, same)

F32AddAlign(A, B0, d, e, s, same) ==
    IF d >= 28 THEN F32AddSticky(A, 0, TRUE, e, s, same)
    ELSE F32AddSticky(A, B0 \div 2^d, B0 % 2^d # 0, e, s, same)

F32AddDecoded(dx, dy, s, same) ==
    F32AddAlign(dx[1] * 8, dy[1] * 8, dx[2] - dy[2], dx[2] - 3, s, same)

\* x + y for |x| >= |y| > 0
F32AddOrdered(x, y) ==
    F32AddDecoded(F32Decode(F32Abs(x)), F32Decode(F32Abs(y)), F32Sgn(x), (x < 0) = (y < 0))

\* a + b
F32Add(a, b) ==
    IF a = 0 THEN b
    ELSE IF b = 0 THEN a
    ELSE IF F32Abs(a) >= F32Abs(b) THEN F32AddOrdered(a, b)
    ELSE F32AddOrdered(b, a)

\* a - b
F32Sub(a, b) == F32Add(a, -b)

\* the 48-bit product as hi0 * 2^24 + los
F32MulHiLo(hi0, los, e, s) ==
    s * F32Round((hi0 + (los \div 16777216)) * 4 + ((los % 16777216) \div 4194304),
                 e, los % 4194304 # 0)

\* hh, mid, ll: the products of the 12-bit halves
F32MulSum(hh, mid, ll, e, s) ==
    F32MulHiLo(hh + (mid \div 4096), ll + (mid % 4096) * 4096, e, s)

F32MulHalves(ah, al, bh, bl, e, s) ==
    F32MulSum(ah * bh, ah * bl + al * bh, al * bl, e, s)

F32MulDecoded(da, db, s) ==
    F32MulHalves(da[1] \div 4096, da[1] % 4096, db[1] \div 4096, db[1] % 4096,
                 da[2] + db[2] + 22, s)

\* a * b
F32Mul(a, b) ==
    IF a = 0 \/ b = 0 THEN 0
    ELSE F32MulDecoded(F32DecodeNorm(F32Abs(a)), F32DecodeNorm(F32Abs(b)),
                       IF (a < 0) = (b < 0) THEN 1 ELSE -1)

RECURSIVE F32DivLoop(_, _, _, _, _, _)
\* long division, 7 bits of quotient a step, n steps to go
F32DivLoop(q, r, mb, n, e, s) ==
    IF n = 0 THEN s * F32Round(q, e, r # 0)
    ELSE F32DivLoop(q * 128 + ((r * 128) \div mb), (r * 128) % mb, mb, n - 1, e, s)

F32DivDecoded(da, db, s) ==
    F32DivLoop(da[1] \div db[1], da[1] % db[1], db[1], 4, da[2] - db[2] - 28, s)

\* a / b, b # 0
F32Div(a, b) ==
    IF a = 0 THEN 0
    ELSE F32DivDecoded(F32DecodeNorm(F32Abs(a)), F32DecodeNorm(F32Abs(b)),
                       IF (a < 0) = (b < 0) THEN 1 ELSE -1)

\* float(i), |i| < 2^31
F32FromInt(i) == F32Sgn(i) * F32Round(F32Abs(i), 0, FALSE)

\* ---------------------------- float constants ----------------------------

\* float(M_PI)
M_PI_F == 1078530011

F_ZERO == 0

F_HALF == 1056964608

F_ONE == 1065353216

F_TWO == 1073741824

F_THREE == 1077936128

\* 2.0f * float(M_PI)
TWO_PI_F == F32Mul(F_TWO, M_PI_F)

\* ---------------------------- libm: cosf / sinf ----------------------------

\* Taylor coefficients 1/2!, 1/4!, ..., 1/12! as floats
COS_C2 == 1056964608

COS_C4 == 1026206379

COS_C6 == 985008993

COS_C8 == 936381697

COS_C10 == 882111102

COS_C12 == 823097031

\* <<-1/12!, +1/10!, ..., -1/2!, 1>>, highest degree first
CosCoefficients ==
    <<-COS_C12, COS_C10, -COS_C8, COS_C6, -COS_C4, COS_C2, -F_ONE>>

RECURSIVE CosHorner(_, _, _)
\* Horner's rule in float: acc * z - c for each c of cs in turn
CosHorner(cs, z, acc) ==
    IF cs = <<>> THEN acc
    ELSE CosHorner(Tail(cs), z, F32Sub(F32Mul(z, acc), Head(cs)))

\* cos on [0, pi/2] by its Taylor polynomial of degree 12 in y
CosPoly(y) == CosHorner(CosCoefficients, F32Mul(y, y), F_ZERO)

\* pi/2 as the program's float
HALF_PI_F == F32Mul(F_HALF, M_PI_F)

\* cos of y in [0, pi]
CosHalfTurn(y) ==
    IF y > HALF_PI_F THEN -CosPoly(F32Sub(M_PI_F, y)) ELSE CosPoly(y)

\* cos of x in [0, 2*pi]
CosTurn(x) == IF x > M_PI_F THEN CosHalfTurn(F32Sub(TWO_PI_F, x)) ELSE CosHalfTurn(x)

\* std::cos(float) for |a| <= 2*pi: an even function, reduced to [0, pi/2]
\* by cos(x) = cos(2pi - x) = -cos(pi - x); the result lies in [-1, 1] and
\* is within 1e-6 of the library's
F32Cos(a) == CosTurn(F32Abs(a))

\* std::sin(float) for 0 <= a <= 2*pi: sin(a) = cos(a - pi/2)
F32Sin(a) == F32Cos(F32Sub(a, HALF_PI_F))

\* ---------------------------- bounds ----------------------------

\* most <node> elements in a document handed to the layout harness
MaxNodes == 7

\* ---------------------------- documents ----------------------------

Max(a, b) == IF a >= b THEN a ELSE b


RECURSIVE SortedSeq(_)
\* the elements of a finite set of integers, ascending
SortedSeq(S) ==
    IF S = {} THEN <<>>
    ELSE LET m == CHOOSE m \in S : \A k \in S : m <= k
         IN  <<m>> \o SortedSeq(S \ {m})

RECURSIVE AncestorsOrSelf(_, _)
\* element i and its ancestors, in the parent array p (p[root] = 0)
AncestorsOrSelf(p, i) ==
    IF i = 0 THEN {} ELSE {i} \cup AncestorsOrSelf(p, p[i])

RECURSIVE ElementTrees(_)
\* every tree of n <node> elements, as the array of each element's parent,
\* elements numbered in document order
ElementTrees(n) ==
    IF n = 1 THEN {<<0>>}
    ELSE UNION {{Append(p, q) : q \in AncestorsOrSelf(p, n - 1)} :
                p \in ElementTrees(n - 1)}

\* ID attribute of element i ("" when absent): absent on odd elements
AttrID(i) == IF i % 2 = 1 THEN "" ELSE "ID_" \o ToString(i)

\* TEXT attribute of element i ("" when absent): absent on every third
AttrTEXT(i) == IF i % 3 = 0 THEN "" ELSE "text_" \o ToString(i)

\* a document that loads, has a <map> and a root <node>
TreeDocument(p) ==
    [loads |-> TRUE, hasMap |-> TRUE, hasRoot |-> TRUE, parent |-> p]

\* XMLElement::FirstChildElement("node") / NextSiblingElement("node"):
\* the child elements of el in document order
ChildElements(doc, el) ==
    SortedSeq({j \in 1..Len(doc.parent) : doc.parent[j] = el})

\* ---------------------------- data model ----------------------------

NULL == 0

\* a default-constructed Node
NewNode ==
    [id |-> "", text |-> "", parent |-> NULL, children |-> <<>>,
     depth |-> 0, leafCount |-> 0,
     angle |-> F_ZERO, radius |-> F_ZERO, x |-> F_ZERO, y |-> F_ZERO]

\* ---------------------------- XML parsing ----------------------------

\* a child kept in document order, at the back of the list
AppendChild(children, child) == Append(children, child)

\* n->children.insert(n->children.begin(), std::move(child))
InsertChild(children, child) == <<child>> \o children

RECURSIVE parseNode(_, _, _, _)
RECURSIVE parseChildren(_, _, _, _)

\* st = [heap, autoId]: the nodes allocated so far (a node's index is its
\* address) and g_autoId; the new node gets index Len(heap) + 1
parseNode(doc, xmlNode, parent, st) ==
    LET n      == Len(st.heap) + 1
        idAttr == AttrID(xmlNode)
        id     == IF idAttr = "" THEN "auto_" \o ToString(st.autoId) ELSE idAttr
        text   == IF AttrTEXT(xmlNode) = "" THEN id ELSE AttrTEXT(xmlNode)
        node   == [NewNode EXCEPT !.parent = parent, !.id = id, !.text = text]
        st1    == [heap   |-> Append(st.heap, node),
                   autoId |-> IF idAttr = "" THEN st.autoId + 1 ELSE st.autoId]
    IN  parseChildren(doc, n, ChildElements(doc, xmlNode), st1)

\* the loop of parseNode over the child elements cs still to parse
parseChildren(doc, n, cs, st) ==
    IF cs = <<>> THEN st
    ELSE LET child == Len(st.heap) + 1
             st1   == parseNode(doc, Head(cs), n, st)
             st2   == [st1 EXCEPT !.heap[n].children = InsertChild(@, child)]
         IN  parseChildren(doc, n, Tail(cs), st2)

\* [root, heap, autoId]; root = NULL when loading fails
loadFreeMind(doc, autoId) ==
    IF ~doc.loads THEN [root |-> NULL, heap |-> <<>>, autoId |-> autoId]
    ELSE IF ~doc.hasMap THEN [root |-> NULL, heap |-> <<>>, autoId |-> autoId]
    ELSE IF ~doc.hasRoot THEN [root |-> NULL, heap |-> <<>>, autoId |-> autoId]
    ELSE LET st == parseNode(doc, 1, NULL, [heap |-> <<>>, autoId |-> autoId])
         IN  [root |-> 1, heap |-> st.heap, autoId |-> st.autoId]

\* ---------------------------- layout ----------------------------

\* a count of the nodes of the subtree, the node itself included
SetLeafCountPlusSelf(heap, n, sum) == [heap EXCEPT ![n].leafCount = sum + 1]

\* the sum added to the count the node already holds
AccumulateLeafCount(heap, n, sum) == [heap EXCEPT ![n].leafCount = @ + sum]

\* n->leafCount = std::max(1, sum)
SetLeafCount(heap, n, sum) == [heap EXCEPT ![n].leafCount = Max(1, sum)]

RECURSIVE computeDepthAndLeaves(_, _, _)
RECURSIVE sumDepthAndLeaves(_, _, _, _)

\* the heap after computeDepthAndLeaves(n, depth); the value returned is
\* the new heap[n].leafCount
computeDepthAndLeaves(heap, n, depth) ==
    LET h1 == [heap EXCEPT ![n].depth = depth]
    IN  IF h1[n].children = <<>> THEN [h1 EXCEPT ![n].leafCount = 1]
        ELSE LET r == sumDepthAndLeaves(h1, h1[n].children, depth + 1, 0)
             IN  SetLeafCount(r.heap, n, r.sum)

\* the loop `for (ch) sum += computeDepthAndLeaves(ch, depth)` over cs
sumDepthAndLeaves(heap, cs, depth, sum) ==
    IF cs = <<>> THEN [heap |-> heap, sum |-> sum]
    ELSE LET h1 == computeDepthAndLeaves(heap, Head(cs), depth)
         IN  sumDepthAndLeaves(h1, Tail(cs), depth, sum + h1[Head(cs)].leafCount)

RECURSIVE sumLeafCount(_, _)
\* the loop `for (ch) totalLeaves += ch->leafCount`
sumLeafCount(heap, cs) ==
    IF cs = <<>> THEN 0 ELSE heap[Head(cs)].leafCount + sumLeafCount(heap, Tail(cs))

\* the start of the sector in place of its middle
SectorStart(a0, a1) == a0

\* 0.5f * (a0 + a1)
Midpoint(a0, a1) == F32Mul(F_HALF, F32Add(a0, a1))

\* the quotient taken in int before the conversion to float
IntegerFraction(leafCount, totalLeaves) == F32FromInt(leafCount \div totalLeaves)

\* float(ch->leafCount) / float(totalLeaves)
LeafFraction(leafCount, totalLeaves) ==
    F32Div(F32FromInt(leafCount), F32FromInt(totalLeaves))

RECURSIVE assignAngles(_, _, _, _)
RECURSIVE assignChildAngles(_, _, _, _, _)

\* st = [heap, sector]; sector[n] records the arguments <<a0, a1>> of the
\* call assignAngles(n, a0, a1)
assignAngles(st, n, a0, a1) ==
    LET st1 == [heap   |-> [st.heap EXCEPT ![n].angle = Midpoint(a0, a1)],
                sector |-> [st.sector EXCEPT ![n] = <<a0, a1>>]]
        cs  == st.heap[n].children
    IN  IF cs = <<>> THEN st1
        ELSE LET span        == F32Sub(a1, a0)
                 totalLeaves == Max(1, sumLeafCount(st.heap, cs))
             IN  assignChildAngles(st1, cs, span, a0, totalLeaves)

\* the second loop of assignAngles over the children cs still to visit
assignChildAngles(st, cs, span, cur, totalLeaves) ==
    IF cs = <<>> THEN st
    ELSE LET ch   == Head(cs)
             frac == LeafFraction(st.heap[ch].leafCount, totalLeaves)
             next == F32Add(cur, F32Mul(span, frac))
         IN  assignChildAngles(assignAngles(st, ch, cur, next), Tail(cs),
                               span, next, totalLeaves)

\* the depth counted from 1
RadiusFromOne(depth, radiusStep) == F32Mul(F32FromInt(depth + 1), radiusStep)

\* n->depth * radiusStep: the int is converted to float, then multiplied
RadiusOf(depth, radiusStep) == F32Mul(F32FromInt(depth), radiusStep)

RECURSIVE assignRadiiAndPositions(_, _, _)
RECURSIVE assignChildRadii(_, _, _)

assignRadiiAndPositions(heap, n, radiusStep) ==
    LET radius == RadiusOf(heap[n].depth, radiusStep)
        h1 == [heap EXCEPT ![n].radius = radius,
                           ![n].x = F32Mul(F32Cos(heap[n].angle), radius),
                           ![n].y = F32Mul(F32Sin(heap[n].angle), radius)]
    IN  assignChildRadii(h1, h1[n].children, radiusStep)

assignChildRadii(heap, cs, radiusStep) ==
    IF cs = <<>> THEN heap
    ELSE assignChildRadii(assignRadiiAndPositions(heap, Head(cs), radiusStep),
                          Tail(cs), radiusStep)

\* [heap, sector] after computeLayout()
computeLayout(heap, sector, root, radiusStep) ==
    LET h1 == computeDepthAndLeaves(heap, root, 0)
        st == assignAngles([heap |-> h1, sector |-> sector], root, F_ZERO, TWO_PI_F)
    IN  [heap   |-> assignRadiiAndPositions(st.heap, root, radiusStep),
         sector |-> st.sector]

\* ---------------------------- link drawing ----------------------------

\* 0.55f, the tangent strength in drawLinkBezier
F_TANGENT == 1057803469

\* <<b0, b1, b2, b3>> from t and u = 1 - t
BernsteinOf(u, t) ==
    <<F32Mul(F32Mul(u, u), u),
      F32Mul(F32Mul(F32Mul(F_THREE, u), u), t),
      F32Mul(F32Mul(F32Mul(F_THREE, u), t), t),
      F32Mul(F32Mul(t, t), t)>>

\* the Bernstein weights <<b0, b1, b2, b3>> bezier3 computes from t
BernsteinWeights(t) == BernsteinOf(F32Sub(F_ONE, t), t)

\* b0*p0 + b1*p1 + b2*p2 + b3*p3 on coordinate c (1: x, 2: y)
BezierSum(b, p0, p1, p2, p3, c) ==
    F32Add(F32Add(F32Add(F32Mul(b[1], p0[c]), F32Mul(b[2], p1[c])),
                  F32Mul(b[3], p2[c])),
           F32Mul(b[4], p3[c]))

BezierPoint(b, p0, p1, p2, p3) ==
    <<BezierSum(b, p0, p1, p2, p3, 1), BezierSum(b, p0, p1, p2, p3, 2)>>

\* <<outx, outy>>; the control points are pairs <<x, y>>
bezier3(p0, p1, p2, p3, t) == BezierPoint(BernsteinWeights(t), p0, p1, p2, p3)

polar(r, a) == <<F32Mul(F32Cos(a), r), F32Mul(F32Sin(a), r)>>

\* the vertices given to GL between glBegin(GL_LINES) and glEnd()
drawLinkStraight(parent, child) ==
    << <<parent.x, parent.y>>, <<child.x, child.y>> >>

\* the control points <<p0, p1, p2, p3>> of the link parent -> child
ControlPoints(parent, child, radiusStep) ==
    <<<<parent.x, parent.y>>,
      polar(F32Add(parent.radius, F32Mul(F_TANGENT, radiusStep)), parent.angle),
      polar(F32Sub(child.radius, F32Mul(F_TANGENT, radiusStep)), child.angle),
      <<child.x, child.y>>>>

\* the curve sampled at i = 0 .. samples - 1 only
drawLinkBezierOpen(parent, child, radiusStep, samples) ==
    LET cp == ControlPoints(parent, child, radiusStep)
    IN  [k \in 1..samples |->
            bezier3(cp[1], cp[2], cp[3], cp[4],
                    F32Div(F32FromInt(k - 1), F32FromInt(samples)))]

\* the vertices given to GL between glBegin(GL_LINE_STRIP) and glEnd();
\* radiusStep and samples are RADIUS_STEP and BEZIER_SAMPLES
drawLinkBezier(parent, child, radiusStep, samples) ==
    LET cp == ControlPoints(parent, child, radiusStep)
    IN  [k \in 1..(samples + 1) |->
            bezier3(cp[1], cp[2], cp[3], cp[4],
                    F32Div(F32FromInt(k - 1), F32FromInt(samples)))]

RECURSIVE drawEdgesRecursive(_, _, _)
RECURSIVE drawChildEdges(_, _, _, _)

\* the links display() draws, in drawing order: which edge, with which of
\* drawLinkBezier / drawLinkStraight
drawEdgesRecursive(heap, n, curved) ==
    drawChildEdges(heap, n, heap[n].children, curved)

drawChildEdges(heap, n, cs, curved) ==
    IF cs = <<>> THEN <<>>
    ELSE <<[parent |-> n, child |-> Head(cs), curved |-> curved]>>
         \o drawEdgesRecursive(heap, Head(cs), curved)
         \o drawChildEdges(heap, n, Tail(cs), curved)

\* ---------------------------- state ----------------------------

VARIABLES
    doc,            \* the document at argv[1] (input)
    pc,             \* where main (or the harness) stands
    exitStatus,     \* <<>> while running, <<status>> once the process has exited
    nEvents,        \* input events delivered so far
    g_root,         \* NULL or the root node's index in heap
    heap,           \* the Node objects, by index
    g_autoId,
    sector,         \* history: the <<a0, a1>> assignAngles was called with
    layoutRuns,     \* history: calls of computeLayout
    RADIUS_STEP,
    BEZIER_SAMPLES,
    LABEL_LEAVES_ONLY,
    LINKS_CURVED,
    LABEL_CONST_SCREEN_SIZE,
    g_winW, g_winH,
    g_zoom, g_panX, g_panY,
    g_dragging, g_lastMouseX, g_lastMouseY,
    g_fullscreen, g_winX, g_winY, g_winW_prev, g_winH_prev,
    g_rotateAnim, g_rotDeg, g_rotDegPerSec, g_lastTimeMs,
    callbacks,      \* GLUT: the callbacks registered
    redisplay,      \* GLUT: a redisplay is posted
    clock,          \* GLUT: the last value of glutGet(GLUT_ELAPSED_TIME)
    frames,         \* history: calls of display
    drawn,          \* history: the links the last display drew
    link            \* harness: the last link drawn, with its vertices

progVars   == <<doc, pc, exitStatus, nEvents>>

treeVars   == <<g_root, heap, g_autoId, sector, layoutRuns>>

cfgVars    == <<RADIUS_STEP, BEZIER_SAMPLES>>

toggleVars == <<LABEL_LEAVES_ONLY, LINKS_CURVED, LABEL_CONST_SCREEN_SIZE>>

winVars    == <<g_winW, g_winH, g_fullscreen, g_winX, g_winY, g_winW_prev, g_winH_prev>>

camVars    == <<g_zoom, g_panX, g_panY>>

mouseVars  == <<g_dragging, g_lastMouseX, g_lastMouseY>>

rotVars    == <<g_rotateAnim, g_rotDeg, g_rotDegPerSec, g_lastTimeMs>>

glutVars   == <<callbacks, redisplay, clock, frames, drawn>>

viewVars   == <<toggleVars, winVars, camVars, mouseVars, rotVars>>

vars == <<progVars, treeVars, cfgVars, viewVars, glutVars, link>>

\* ---------------------------- configuration ----------------------------

\* 35.0f
RADIUS_STEP_INIT == 1108082688

BEZIER_SAMPLES_INIT == 28

\* 400.0f
BASE_HALF_H == 1137180672

\* 1.0f
G_ZOOM_INIT == 1065353216

\* 15.0f
G_ROT_DEG_PER_SEC_INIT == 1097859072

G_WIN_W_INIT == 1000

G_WIN_H_INIT == 900

G_WIN_X_INIT == 100

G_WIN_Y_INIT == 100

\* no link drawn yet
NoLink == [parent |-> NULL, child |-> NULL, curved |-> FALSE, vertices |-> <<>>]

\* the values of the statics before main runs
StaticInit ==
    /\ g_root = NULL /\ heap = <<>> /\ g_autoId = 1
    /\ sector = <<>> /\ layoutRuns = 0
    /\ LABEL_LEAVES_ONLY = FALSE /\ LINKS_CURVED = TRUE
    /\ LABEL_CONST_SCREEN_SIZE = FALSE
    /\ g_winW = G_WIN_W_INIT /\ g_winH = G_WIN_H_INIT
    /\ g_zoom = G_ZOOM_INIT /\ g_panX = F_ZERO /\ g_panY = F_ZERO
    /\ g_dragging = FALSE /\ g_lastMouseX = 0 /\ g_lastMouseY = 0
    /\ g_fullscreen = FALSE /\ g_winX = G_WIN_X_INIT /\ g_winY = G_WIN_Y_INIT
    /\ g_winW_prev = G_WIN_W_INIT /\ g_winH_prev = G_WIN_H_INIT
    /\ g_rotateAnim = FALSE /\ g_rotDeg = F_ZERO
    /\ g_rotDegPerSec = G_ROT_DEG_PER_SEC_INIT /\ g_lastTimeMs = 0
    /\ callbacks = {} /\ redisplay = FALSE /\ clock = 0
    /\ frames = 0 /\ drawn = <<>> /\ link = NoLink
    /\ exitStatus = <<>> /\ nEvents = 0

\* ---------------------------- bounds and inputs ----------------------------

\* most <node> elements in a document given to the program
MaxElems == 2

\* most input events (keyboard, mouse, motion, reshape, idle) delivered
MaxEvents == 3

RECURSIVE TreesUpTo(_)
TreesUpTo(n) == IF n = 0 THEN {} ELSE ElementTrees(n) \cup TreesUpTo(n - 1)

\* a file that cannot be loaded, one with no <map>, one with no root <node>
FailingDocuments ==
    {[loads |-> FALSE, hasMap |-> FALSE, hasRoot |-> FALSE, parent |-> <<>>],
     [loads |-> TRUE,  hasMap |-> FALSE, hasRoot |-> FALSE, parent |-> <<>>],
     [loads |-> TRUE,  hasMap |-> TRUE,  hasRoot |-> FALSE, parent |-> <<>>]}

Documents == FailingDocuments \cup {TreeDocument(p) : p \in TreesUpTo(MaxElems)}

\* ESC + - l c f r R [ ] t and a key with no binding (q)
Keys == {27, 43, 45, 108, 99, 102, 114, 82, 91, 93, 116, 113}

\* GLUT_LEFT_BUTTON, GLUT_RIGHT_BUTTON, wheel up, wheel down
Buttons == {0, 2, 3, 4}

GLUT_LEFT_BUTTON == 0

GLUT_DOWN == 0

GLUT_UP == 1

\* pointer positions in window pixels
Pointers == {<<10, 20>>, <<30, 25>>}

\* window sizes a reshape event reports
WindowSizes == {<<0, 0>>, <<800, 600>>}

\* window positions glutGet(GLUT_WINDOW_X / GLUT_WINDOW_Y) reports
WindowPositions == {<<100, 100>>, <<64, 48>>}

\* milliseconds between two readings of GLUT_ELAPSED_TIME
TimeSteps == {16, 48000}

\* ---------------------------- main ----------------------------

\* std::min / std::max
StdMin(a, b) == IF b < a THEN b ELSE a

StdMax(a, b) == IF a < b THEN b ELSE a

\* a test that never finds the root missing
RootNeverNull(root) == FALSE

\* main's test `if (!g_root)`
RootIsNull(root) == root = NULL

\* g_root = loadFreeMind(path), between two places of the caller
LoadStep(from, to) ==
    /\ pc = from
    /\ LET r == loadFreeMind(doc, g_autoId)
       IN  /\ g_root' = r.root
           /\ heap' = r.heap
           /\ g_autoId' = r.autoId
           /\ sector' = [i \in 1..Len(r.heap) |-> <<F_ZERO, F_ZERO>>]
    /\ pc' = to
    /\ UNCHANGED <<doc, exitStatus, nEvents, layoutRuns, cfgVars, viewVars, glutVars, link>>

\* computeLayout(), between two places of the caller
LayoutStep(from, to) ==
    /\ pc = from
    /\ LET r == computeLayout(heap, sector, g_root, RADIUS_STEP)
       IN  /\ heap' = r.heap
           /\ sector' = r.sector
    /\ layoutRuns' = layoutRuns + 1
    /\ pc' = to
    /\ UNCHANGED <<doc, exitStatus, nEvents, g_root, g_autoId, cfgVars, viewVars, glutVars, link>>

MainLoad == LoadStep("load", "check")

\* if (!g_root) return 1;
MainCheck ==
    /\ pc = "check"
    /\ IF RootIsNull(g_root)
         THEN pc' = "exit" /\ exitStatus' = <<1>>
         ELSE pc' = "layout" /\ UNCHANGED exitStatus
    /\ UNCHANGED <<doc, nEvents, treeVars, cfgVars, viewVars, glutVars, link>>

\* computeLayout(); on a null g_root its first write dereferences null
MainLayout ==
    IF g_root = NULL
      THEN /\ pc = "layout"
           /\ pc' = "crash"
           /\ UNCHANGED <<doc, exitStatus, nEvents, treeVars, cfgVars, viewVars, glutVars, link>>
      ELSE LayoutStep("layout", "glut")

\* glutInit .. glutIdleFunc, then glutMainLoop(): the new window needs
\* displaying
MainGlut ==
    /\ pc = "glut"
    /\ callbacks' = {"display", "reshape", "keyboard", "mouse", "motion", "idle"}
    /\ redisplay' = TRUE
    /\ pc' = "loop"
    /\ UNCHANGED <<doc, exitStatus, nEvents, treeVars, cfgVars, viewVars, clock, frames, drawn, link>>

\* ---------------------------- callbacks ----------------------------

\* a display() that lays the tree out again before it draws
DisplayWithLayout ==
    /\ pc = "loop" /\ "display" \in callbacks /\ redisplay
    /\ redisplay' = FALSE
    /\ frames' = frames + 1
    /\ LET r == computeLayout(heap, sector, g_root, RADIUS_STEP)
       IN  /\ heap' = r.heap
           /\ sector' = r.sector
           /\ drawn' = drawEdgesRecursive(r.heap, g_root, LINKS_CURVED)
    /\ layoutRuns' = layoutRuns + 1
    /\ UNCHANGED <<progVars, g_root, g_autoId, cfgVars, viewVars, callbacks, clock, link>>

\* display(): draws (edges, then labels) and changes no program state
Display ==
    /\ pc = "loop" /\ "display" \in callbacks /\ redisplay
    /\ redisplay' = FALSE
    /\ frames' = frames + 1
    /\ drawn' = IF g_root = NULL THEN <<>>
                ELSE drawEdgesRecursive(heap, g_root, LINKS_CURVED)
    /\ UNCHANGED <<progVars, treeVars, cfgVars, viewVars, callbacks, clock, link>>

\* 360.0f
F_360 == 1135869952

\* 1000.0f
F_1000 == 1148846080

\* the rotation after idle's two wrap-around tests
WrapDegrees(deg) ==
    LET d1 == IF deg >= F_360 THEN F32Sub(deg, F_360) ELSE deg
    IN  IF d1 < F_ZERO THEN F32Add(d1, F_360) ELSE d1

\* idle(); now is the value glutGet(GLUT_ELAPSED_TIME) returns
Idle(now) ==
    /\ pc = "loop" /\ "idle" \in callbacks /\ nEvents < MaxEvents
    /\ nEvents' = nEvents + 1
    /\ IF ~g_rotateAnim
         THEN UNCHANGED <<g_rotDeg, g_lastTimeMs, clock, redisplay>>
         ELSE LET last == IF g_lastTimeMs = 0 THEN now ELSE g_lastTimeMs
                  dtMs == now - last
                  dt   == F32Div(F32FromInt(dtMs), F_1000)
              IN  /\ g_lastTimeMs' = now
                  /\ g_rotDeg' = WrapDegrees(F32Add(g_rotDeg, F32Mul(g_rotDegPerSec, dt)))
                  /\ clock' = now
                  /\ redisplay' = TRUE
    /\ UNCHANGED <<doc, pc, exitStatus, treeVars, cfgVars, toggleVars, winVars, camVars,
                   mouseVars, g_rotateAnim, g_rotDegPerSec, callbacks, frames, drawn, link>>

\* reshape(w, h)
Reshape(w, h) ==
    /\ pc = "loop" /\ "reshape" \in callbacks /\ nEvents < MaxEvents
    /\ nEvents' = nEvents + 1
    /\ g_winW' = StdMax(1, w)
    /\ g_winH' = StdMax(1, h)
    /\ redisplay' = TRUE
    /\ UNCHANGED <<doc, pc, exitStatus, treeVars, cfgVars, toggleVars, g_fullscreen, g_winX,
                   g_winY, g_winW_prev, g_winH_prev, camVars, mouseVars, rotVars,
                   callbacks, clock, frames, drawn, link>>

\* 20.0f, 0.1f, 1.1f, 0.9f, 5.0f
F_ZOOM_MAX == 1101004800

F_ZOOM_MIN == 1036831949

F_ZOOM_IN == 1066192077

F_ZOOM_OUT == 1063675494

F_5 == 1084227584

ZoomIn(z) == StdMin(F_ZOOM_MAX, F32Mul(z, F_ZOOM_IN))

ZoomOut(z) == StdMax(F_ZOOM_MIN, F32Mul(z, F_ZOOM_OUT))

KEY_ESC == 27

\* keyboard(key, x, y); pos is what glutGet(GLUT_WINDOW_X / _Y) reports
Keyboard(key, pos) ==
    /\ pc = "loop" /\ "keyboard" \in callbacks /\ nEvents < MaxEvents
    /\ nEvents' = nEvents + 1
    /\ IF key = KEY_ESC
         THEN /\ pc' = "exit" /\ exitStatus' = <<0>>
              /\ UNCHANGED <<viewVars, redisplay>>
         ELSE /\ UNCHANGED <<pc, exitStatus>>
              /\ g_zoom' = IF key \in {43, 61} THEN ZoomIn(g_zoom)
                           ELSE IF key \in {45, 95} THEN ZoomOut(g_zoom)
                           ELSE g_zoom
              /\ LABEL_LEAVES_ONLY' = IF key \in {108, 76} THEN ~LABEL_LEAVES_ONLY
                                      ELSE LABEL_LEAVES_ONLY
              /\ LINKS_CURVED' = IF key \in {99, 67} THEN ~LINKS_CURVED ELSE LINKS_CURVED
              /\ IF key \in {102, 70}
                   THEN IF ~g_fullscreen
                          THEN /\ g_fullscreen' = TRUE
                               /\ g_winW_prev' = g_winW
                               /\ g_winH_prev' = g_winH
                               /\ g_winX' = pos[1]
                               /\ g_winY' = pos[2]
                          ELSE /\ g_fullscreen' = FALSE
                               /\ UNCHANGED <<g_winW_prev, g_winH_prev, g_winX, g_winY>>
                   ELSE UNCHANGED <<g_fullscreen, g_winW_prev, g_winH_prev, g_winX, g_winY>>
              /\ IF key \in {114, 82}
                   THEN g_rotateAnim' = ~g_rotateAnim /\ g_lastTimeMs' = 0
                   ELSE UNCHANGED <<g_rotateAnim, g_lastTimeMs>>
              /\ g_rotDegPerSec' =
                     IF key = 91 THEN StdMax(F_ZERO, F32Sub(g_rotDegPerSec, F_5))
                     ELSE IF key = 93 THEN StdMin(F_360, F32Add(g_rotDegPerSec, F_5))
                     ELSE g_rotDegPerSec
              /\ LABEL_CONST_SCREEN_SIZE' = IF key \in {116, 84} THEN ~LABEL_CONST_SCREEN_SIZE
                                            ELSE LABEL_CONST_SCREEN_SIZE
              /\ redisplay' = TRUE
              /\ UNCHANGED <<g_winW, g_winH, g_panX, g_panY, mouseVars, g_rotDeg>>
    /\ UNCHANGED <<doc, treeVars, cfgVars, callbacks, clock, frames, drawn, link>>

\* mouse(button, state, x, y)
Mouse(button, state, x, y) ==
    /\ pc = "loop" /\ "mouse" \in callbacks /\ nEvents < MaxEvents
    /\ nEvents' = nEvents + 1
    /\ IF button = GLUT_LEFT_BUTTON
         THEN IF state = GLUT_DOWN
                THEN g_dragging' = TRUE /\ g_lastMouseX' = x /\ g_lastMouseY' = y
                ELSE g_dragging' = FALSE /\ UNCHANGED <<g_lastMouseX, g_lastMouseY>>
         ELSE UNCHANGED mouseVars
    /\ IF state = GLUT_DOWN /\ button = 3
         THEN g_zoom' = ZoomIn(g_zoom) /\ redisplay' = TRUE
         ELSE IF state = GLUT_DOWN /\ button = 4
                THEN g_zoom' = ZoomOut(g_zoom) /\ redisplay' = TRUE
                ELSE UNCHANGED <<g_zoom, redisplay>>
    /\ UNCHANGED <<doc, pc, exitStatus, treeVars, cfgVars, toggleVars, winVars, g_panX,
                   g_panY, rotVars, callbacks, clock, frames, drawn, link>>

\* motion(x, y)
Motion(x, y) ==
    /\ pc = "loop" /\ "motion" \in callbacks /\ nEvents < MaxEvents
    /\ nEvents' = nEvents + 1
    /\ IF ~g_dragging
         THEN UNCHANGED <<g_lastMouseX, g_lastMouseY, g_panX, g_panY, redisplay>>
         ELSE LET dx == x - g_lastMouseX
                  dy == y - g_lastMouseY
                  viewHalfH == F32Div(BASE_HALF_H, g_zoom)
                  worldPerPixel == F32Div(F32Mul(F_TWO, viewHalfH),
                                          F32FromInt(StdMax(1, g_winH)))
              IN  /\ g_lastMouseX' = x
                  /\ g_lastMouseY' = y
                  /\ g_panX' = F32Sub(g_panX, F32Mul(F32FromInt(dx), worldPerPixel))
                  /\ g_panY' = F32Add(g_panY, F32Mul(F32FromInt(dy), worldPerPixel))
                  /\ redisplay' = TRUE
    /\ UNCHANGED <<doc, pc, exitStatus, treeVars, cfgVars, toggleVars, winVars, g_zoom,
                   g_dragging, rotVars, callbacks, clock, frames, drawn, link>>

\* ---------------------------- the program ----------------------------

Init ==
    /\ doc \in Documents
    /\ pc = "load"
    /\ RADIUS_STEP = RADIUS_STEP_INIT
    /\ BEZIER_SAMPLES = BEZIER_SAMPLES_INIT
    /\ StaticInit

Next ==
    \/ MainLoad
    \/ MainCheck
    \/ MainLayout
    \/ MainGlut
    \/ Display
    \/ \E d \in TimeSteps : Idle(clock + d)
    \/ \E s \in WindowSizes : Reshape(s[1], s[2])
    \/ \E key \in Keys, pos \in WindowPositions : Keyboard(key, pos)
    \/ \E b \in Buttons, st \in {GLUT_DOWN, GLUT_UP}, p \in Pointers : Mouse(b, st, p[1], p[2])
    \/ \E p \in Pointers : Motion(p[1], p[2])

Spec == Init /\ [][Next]_vars

\* ---------------------------- the layout passes on their own ----------------------------

\* most calls of computeLayout on one tree
MaxRuns == 2

\* 35.0f and 0.1f
RadiusSteps == {1108082688, 1036831949}

InitLayout ==
    /\ doc \in {TreeDocument(p) : p \in TreesUpTo(MaxNodes)}
    /\ pc = "h_load"
    /\ RADIUS_STEP \in RadiusSteps
    /\ BEZIER_SAMPLES = BEZIER_SAMPLES_INIT
    /\ StaticInit

HarnessLoad == LoadStep("h_load", "h_fresh")

\* the three calls of the first computeLayout(), one at a time
HarnessDepthAndLeaves ==
    /\ pc = "h_fresh"
    /\ heap' = computeDepthAndLeaves(heap, g_root, 0)
    /\ pc' = "h_counted"
    /\ UNCHANGED <<doc, exitStatus, nEvents, g_root, g_autoId, sector, layoutRuns,
                   cfgVars, viewVars, glutVars, link>>

HarnessAngles ==
    /\ pc = "h_counted"
    /\ LET st == assignAngles([heap |-> heap, sector |-> sector], g_root, F_ZERO, TWO_PI_F)
       IN  heap' = st.heap /\ sector' = st.sector
    /\ pc' = "h_angled"
    /\ UNCHANGED <<doc, exitStatus, nEvents, g_root, g_autoId, layoutRuns,
                   cfgVars, viewVars, glutVars, link>>

HarnessRadii ==
    /\ pc = "h_angled"
    /\ heap' = assignRadiiAndPositions(heap, g_root, RADIUS_STEP)
    /\ layoutRuns' = layoutRuns + 1
    /\ pc' = "h_laid"
    /\ UNCHANGED <<doc, exitStatus, nEvents, g_root, g_autoId, sector,
                   cfgVars, viewVars, glutVars, link>>

\* computeLayout() again on the tree it has laid out
HarnessLayoutAgain ==
    /\ layoutRuns < MaxRuns
    /\ LayoutStep("h_laid", "h_laid")

NextLayout ==
    \/ HarnessLoad
    \/ HarnessDepthAndLeaves
    \/ HarnessAngles
    \/ HarnessRadii
    \/ HarnessLayoutAgain

SpecLayout == InitLayout /\ [][NextLayout]_vars

\* ---------------------------- the link functions on their own ----------------------------

\* most <node> elements in a document whose links are drawn
MaxLinkNodes == 4

\* values of BEZIER_SAMPLES
SampleCounts == {1, 2, 28}

InitLinks ==
    /\ doc \in {TreeDocument(p) : p \in TreesUpTo(MaxLinkNodes)}
    /\ pc = "l_load"
    /\ RADIUS_STEP = RADIUS_STEP_INIT
    /\ BEZIER_SAMPLES \in SampleCounts
    /\ StaticInit

LinksLoad == LoadStep("l_load", "l_fresh")

LinksLayout == LayoutStep("l_fresh", "l_laid")

\* what drawEdgesRecursive does for the edge parent -> child
DrawLink(parent, child, curved) ==
    /\ pc = "l_laid" /\ link = NoLink
    /\ link' = [parent |-> parent, child |-> child, curved |-> curved,
                vertices |-> IF curved
                               THEN drawLinkBezier(heap[parent], heap[child],
                                                   RADIUS_STEP, BEZIER_SAMPLES)
                               ELSE drawLinkStraight(heap[parent], heap[child])]
    /\ UNCHANGED <<progVars, treeVars, cfgVars, viewVars, glutVars>>

NextLinks ==
    \/ LinksLoad
    \/ LinksLayout
    \/ \E e \in {<<n, c>> \in (1..Len(heap)) \X (1..Len(heap)) : heap[c].parent = n},
          curved \in BOOLEAN : DrawLink(e[1], e[2], curved)

SpecLinks == InitLinks /\ [][NextLinks]_vars

\* ---------------------------- properties: leaf counts ----------------------------

Nodes == 1..Len(heap)

Internal == {n \in Nodes : heap[n].children # <<>>}

Leaves == {n \in Nodes : heap[n].children = <<>>}

RECURSIVE LeafCountSum(_)
\* the sum of leafCount over the nodes of the sequence cs
LeafCountSum(cs) ==
    IF cs = <<>> THEN 0 ELSE heap[Head(cs)].leafCount + LeafCountSum(Tail(cs))

\* the harness is past computeDepthAndLeaves(root, 0)
Counted == pc \in {"h_counted", "h_angled", "h_laid"}

\* the harness is past assignAngles(root, 0, 2 pi)
Angled == pc \in {"h_angled", "h_laid"}

\* the harness is past a whole computeLayout()
Laid == pc = "h_laid"

\* C1: after computeDepthAndLeaves(root, 0) every node has leafCount >= 1,
\* every childless node has leafCount = 1, every node with children has
\* leafCount equal to the sum of its children's leafCount, and the root's
\* leafCount is the number of childless nodes of the tree.
C1_LeafCounts ==
    Counted =>
        /\ \A n \in Nodes : heap[n].leafCount >= 1
        /\ \A n \in Leaves : heap[n].leafCount = 1
        /\ \A n \in Internal : heap[n].leafCount = LeafCountSum(heap[n].children)
        /\ heap[g_root].leafCount = Cardinality(Leaves)

\* a counted tree of MaxNodes nodes whose root has a child with several
\* leaves below it
C1_Witness ==
    /\ pc = "h_counted"
    /\ Len(heap) = MaxNodes
    /\ Cardinality(Leaves) >= 3
    /\ \E n \in Internal : n # g_root /\ heap[n].leafCount >= 2

\* ---------------------------- properties: sectors ----------------------------

\* the sector [a0, a1) node n was given
SectorStartOf(n) == sector[n][1]

SectorEndOf(n) == sector[n][2]

FirstChild(n) == heap[n].children[1]

LastChild(n) == heap[n].children[Len(heap[n].children)]

\* the children of n are laid side by side from the start of n's sector:
\* the first starts at a0 and each next one starts where the previous ends
Contiguous(n) ==
    /\ SectorStartOf(FirstChild(n)) = SectorStartOf(n)
    /\ \A i \in 1..(Len(heap[n].children) - 1) :
           SectorStartOf(heap[n].children[i + 1]) = SectorEndOf(heap[n].children[i])

\* no child's sector is turned inside out, so side by side they do not overlap
NonOverlapping(n) ==
    \A i \in 1..Len(heap[n].children) :
        SectorStartOf(heap[n].children[i]) <= SectorEndOf(heap[n].children[i])

\* the sector of child c of n ends at its start plus
\* (a1 - a0) * leafCount(c) / sum of the siblings' leafCount, each
\* operation rounded to single precision
ProportionalWidth(n, c) ==
    SectorEndOf(c) =
        F32Add(SectorStartOf(c),
               F32Mul(F32Sub(SectorEndOf(n), SectorStartOf(n)),
                      F32Div(F32FromInt(heap[c].leafCount),
                             F32FromInt(LeafCountSum(heap[n].children)))))

ProportionalWidths(n) ==
    \A i \in 1..Len(heap[n].children) : ProportionalWidth(n, heap[n].children[i])

\* the leaf counts of the children of n, in child-list order
ChildLeafCounts(n) ==
    [i \in 1..Len(heap[n].children) |-> heap[heap[n].children[i]].leafCount]

SectorWidth(c) == F32Sub(SectorEndOf(c), SectorStartOf(c))

\* children with leaf counts 1, 1, 2 under the root: widths in ratio 1:1:2
RatioOneOneTwo ==
    ChildLeafCounts(g_root) = <<1, 1, 2>> =>
        /\ SectorWidth(heap[g_root].children[1]) = SectorWidth(heap[g_root].children[2])
        /\ SectorWidth(heap[g_root].children[3])
               = F32Mul(F_TWO, SectorWidth(heap[g_root].children[1]))
        /\ SectorEndOf(heap[g_root].children[3]) = TWO_PI_F

\* the number of single-precision values between a and b
UlpDistance(a, b) == IF a < b THEN b - a ELSE a - b

\* C2 as the spec states it: the children's sectors are contiguous in
\* child-list order, non-overlapping, of proportional width, and the last
\* one ends exactly at a1, the end of the parent's sector.
C2_ExactPartition ==
    Angled =>
        \A n \in Internal :
            /\ Contiguous(n)
            /\ NonOverlapping(n)
            /\ ProportionalWidths(n)
            /\ SectorEndOf(LastChild(n)) = SectorEndOf(n)

\* C2, amended: the children's sectors are contiguous in child-list order
\* (the first starts at a0, each next one starts exactly where the previous
\* ends), non-overlapping, each ends at its start plus
\* (a1 - a0) * leafCount(child) / sum of the siblings' leafCount computed in
\* single precision, and the last one ends within 2 * (k + 3)
\* single-precision values of a1 for k children (at a1 itself for leaf counts
\* 1, 1, 2 under the root, whose widths are in ratio 1:1:2).
C2_RoundedPartition ==
    Angled =>
        /\ \A n \in Internal :
               /\ Contiguous(n)
               /\ NonOverlapping(n)
               /\ ProportionalWidths(n)
               /\ UlpDistance(SectorEndOf(LastChild(n)), SectorEndOf(n))
                      <= 2 * (Len(heap[n].children) + 3)
        /\ RatioOneOneTwo

\* a tree with angles assigned where some last child's sector ends beside a1
\* and not at it
C2_Witness ==
    /\ Angled
    /\ \E n \in Internal : SectorEndOf(LastChild(n)) # SectorEndOf(n)
    /\ \E n \in Internal : Len(heap[n].children) >= 3 /\ n # g_root

\* a tree with angles assigned whose root has children with leaf counts 1, 1, 2
C2_WitnessRatio ==
    Angled /\ ChildLeafCounts(g_root) = <<1, 1, 2>>

\* ---------------------------- properties: angles ----------------------------

ChildEdges == {e \in Nodes \X Nodes : heap[e[2]].parent = e[1]}

DepthsFromRoot ==
    /\ heap[g_root].depth = 0
    /\ \A e \in ChildEdges : heap[e[2]].depth = heap[e[1]].depth + 1

RootAtOrigin ==
    /\ heap[g_root].radius = F_ZERO
    /\ heap[g_root].x = F_ZERO
    /\ heap[g_root].y = F_ZERO

\* C4 as the spec states it: depths count from 0 at the root, radius is
\* depth * radiusStep, a child's radius exceeds its parent's by exactly
\* radiusStep, and the root is at radius 0 and x = y = 0.
C4_ExactStep ==
    Laid =>
        /\ DepthsFromRoot
        /\ \A n \in Nodes : heap[n].radius = F32Mul(F32FromInt(heap[n].depth), RADIUS_STEP)
        /\ \A e \in ChildEdges :
               F32Sub(heap[e[2]].radius, heap[e[1]].radius) = RADIUS_STEP
        /\ RootAtOrigin

\* C4, amended: depths count from 0 at the root and grow by 1 from parent to
\* child; radius is depth * radiusStep rounded to single precision, strictly
\* greater for a child than for its parent; the difference is exactly
\* radiusStep when radiusStep is the program's 35.0f or the parent is no
\* deeper than 1; the root is at radius 0 and x = y = 0.
C4_RoundedStep ==
    Laid =>
        /\ DepthsFromRoot
        /\ \A n \in Nodes : heap[n].radius = F32Mul(F32FromInt(heap[n].depth), RADIUS_STEP)
        /\ \A e \in ChildEdges :
               /\ heap[e[2]].radius > heap[e[1]].radius
               /\ (RADIUS_STEP = RADIUS_STEP_INIT \/ heap[e[1]].depth <= 1) =>
                      F32Sub(heap[e[2]].radius, heap[e[1]].radius) = RADIUS_STEP
        /\ RootAtOrigin

\* a laid-out tree with a node at depth 3 whose radius is not its parent's
\* plus the step, and the root at angle pi
C4_Witness ==
    /\ Laid
    /\ heap[g_root].angle = M_PI_F
    /\ \E e \in ChildEdges :
           /\ heap[e[2]].depth = 3
           /\ F32Sub(heap[e[2]].radius, heap[e[1]].radius) # RADIUS_STEP

\* ---------------------------- properties: a second run ----------------------------

\* C7: computeLayout on a tree it has already laid out, with the same
\* radiusStep, leaves depth, leafCount, angle, radius, x and y of every node
\* (and the sectors handed down) as the first run left them.
C7_Idempotent == [][Laid => (heap' = heap /\ sector' = sector)]_vars

\* a tree of several levels, laid out twice
C7_Witness ==
    /\ Laid
    /\ layoutRuns = MaxRuns
    /\ \E n \in Internal : n # g_root /\ heap[n].leafCount >= 2

\* ---------------------------- properties: child order ----------------------------

RECURSIVE Reversed(_)
Reversed(s) == IF s = <<>> THEN <<>> ELSE Append(Reversed(Tail(s)), Head(s))

\* the child elements of element n, last in the document first
ReversedElements(n) == Reversed(ChildElements(doc, n))

\* C9: after parsing, every node's child list is the reverse of the document
\* order of its child elements; so once angles are assigned the child that
\* comes last in the document has the sector starting at the parent's sector
\* start, and among siblings the sector start decreases as document order
\* increases.
C9_ReversedChildren ==
    /\ pc # "h_load" =>
           \A n \in Nodes : heap[n].children = ReversedElements(n)
    /\ Angled =>
           \A n \in Internal :
               LET es == ChildElements(doc, n)
               IN  /\ SectorStartOf(es[Len(es)]) = SectorStartOf(n)
                   /\ \A i \in 1..(Len(es) - 1) :
                          SectorStartOf(es[i]) > SectorStartOf(es[i + 1])

\* a tree with angles assigned in which a node has at least three children
C9_Witness ==
    /\ Angled
    /\ \E n \in Internal :
           /\ Len(heap[n].children) >= 3
           /\ heap[n].children[1] > heap[n].children[2]

\* ---------------------------- properties: links ----------------------------

ParentPoint == <<heap[link.parent].x, heap[link.parent].y>>

ChildPoint == <<heap[link.child].x, heap[link.child].y>>

\* t = i / N as drawLinkBezier computes it
SampleParameter(i) == F32Div(F32FromInt(i), F32FromInt(BEZIER_SAMPLES))

\* the point of the curve parent -> child at t = i / N
SamplePoint(i) ==
    LET cp == ControlPoints(heap[link.parent], heap[link.child], RADIUS_STEP)
    IN  bezier3(cp[1], cp[2], cp[3], cp[4], SampleParameter(i))

\* C5: for every parent-child edge of a laid-out tree and in either link
\* mode the emitted point sequence is non-empty, starts at the parent's
\* (x, y) and ends at the child's (x, y); straight mode emits the 2 points
\* [parent, child]; curved mode with N = BEZIER_SAMPLES >= 1 emits N + 1
\* points, the points at t = i / N for i = 0..N, and the Bernstein weights
\* are (1,0,0,0) at t = 0 and (0,0,0,1) at t = N / N.
C5_LinkPoints ==
    link # NoLink =>
        /\ Len(link.vertices) >= 1
        /\ link.vertices[1] = ParentPoint
        /\ link.vertices[Len(link.vertices)] = ChildPoint
        /\ ~link.curved => link.vertices = <<ParentPoint, ChildPoint>>
        /\ link.curved =>
               /\ Len(link.vertices) = BEZIER_SAMPLES + 1
               /\ \A i \in 0..BEZIER_SAMPLES : link.vertices[i + 1] = SamplePoint(i)
               /\ BernsteinWeights(SampleParameter(0)) = <<F_ONE, F_ZERO, F_ZERO, F_ZERO>>
               /\ BernsteinWeights(SampleParameter(BEZIER_SAMPLES))
                      = <<F_ZERO, F_ZERO, F_ZERO, F_ONE>>

\* a curved link of 28 segments drawn between two nodes away from the origin
C5_Witness ==
    /\ link # NoLink
    /\ link.curved
    /\ BEZIER_SAMPLES = BEZIER_SAMPLES_INIT
    /\ heap[link.parent].depth >= 1
    /\ link.vertices[2] # link.vertices[1]

\* ---------------------------- properties: the session ----------------------------

\* the document is one loadFreeMind fails on
LoadFails == ~doc.loads \/ ~doc.hasMap \/ ~doc.hasRoot

\* C6: layout is computed exactly once, after a successful load and before
\* the event loop starts; once in the event loop no display, idle, reshape,
\* keyboard, mouse or motion event changes a node's depth, leafCount, angle,
\* radius, x, y or child list (or the tree, or the layout configuration):
\* events change view state and the rendering toggles only.
C6_LayoutOnce ==
    /\ [](pc \in {"load", "check", "layout"} => layoutRuns = 0)
    /\ [](pc \in {"glut", "loop"} => (layoutRuns = 1 /\ ~LoadFails /\ g_root # NULL))
    /\ [][pc = "loop" => (treeVars' = treeVars /\ cfgVars' = cfgVars /\ doc' = doc)]_vars

\* the event loop after events that zoomed the view and two frames drawn
C6_Witness ==
    /\ pc = "loop"
    /\ nEvents = MaxEvents
    /\ frames >= 2
    /\ Len(heap) >= 2
    /\ g_zoom # G_ZOOM_INIT

\* C8: the layout core never runs on a null tree: when loading fails (the
\* file cannot be loaded, has no <map>, or has no root <node>) loadFreeMind
\* returns null and main exits with status 1 with no call of computeLayout,
\* no callback registered and no event loop; computeLayout and display only
\* ever run with a non-null root.
C8_NeverOnNullTree ==
    /\ (LoadFails /\ pc # "load") =>
           /\ g_root = NULL
           /\ pc \in {"check", "exit"}
           /\ pc = "exit" => exitStatus = <<1>>
           /\ layoutRuns = 0 /\ callbacks = {} /\ frames = 0
    /\ pc \in {"layout", "glut", "loop"} => g_root # NULL
    /\ (layoutRuns > 0 \/ frames > 0 \/ callbacks # {}) => g_root # NULL
    /\ pc # "crash"
    /\ (~LoadFails /\ pc = "exit") => exitStatus = <<0>>

\* main has returned 1 on a document with a <map> and no root <node>
C8_Witness ==
    /\ doc.loads /\ doc.hasMap /\ ~doc.hasRoot
    /\ pc = "exit"
    /\ exitStatus = <<1>>

\* C10: after any sequence of idle ticks and key presses the rotation speed
\* g_rotDegPerSec stays within [0, 360] and the view rotation g_rotDeg
\* satisfies 0 <= g_rotDeg < 360.
C10_RotationInRange ==
    /\ F_ZERO <= g_rotDegPerSec /\ g_rotDegPerSec <= F_360
    /\ F_ZERO <= g_rotDeg /\ g_rotDeg < F_360
====
